---- MODULE Spec2Model ----
(***************************************************************************)
(* A model of the falling-sand automaton of src/src/world.rs (SandWorld)   *)
(* driven by the frame loop of src/src/main.rs: update() (brush keys, the  *)
(* paint edit, the intent scan) and then commit_cells().                   *)
(***************************************************************************)
EXTENDS Integers, Sequences, FiniteSets, TLC

VARIABLES
    width,        \* SandWorld.width
    height,       \* SandWorld.height
    scale,        \* SandWorld.scale
    brush,        \* SandWorld.brush
    cells,        \* SandWorld.cells, indexed 0 .. width*height-1
    changes,      \* SandWorld.changes: destination index -> candidate sources
    water_cells,  \* SandWorld.water_cells
    pc,           \* position in the frame loop: "update", "scan", "commit"
    sx,           \* the scan loop's x
    sy,           \* the scan loop's y
    todo,         \* destinations commit_cells() has still to visit
    paints,       \* number of paint edits made so far (bounded)
    tickCells,    \* history: cells when the intent scan of this tick started
    tickChanges,  \* history: changes when commit_cells() was entered
    tickWinner,   \* history: destination -> the source commit_cells() picked
    tickOrder,    \* history: destinations in the order commit_cells() visited
    ticked        \* history: commit_cells() has returned at least once

vars == <<width, height, scale, brush, cells, changes, water_cells, pc, sx, sy,
          todo, paints, tickCells, tickChanges, tickWinner, tickOrder, ticked>>

-----------------------------------------------------------------------------
(* Bounds of the model *)

\* the display scale handed to new()
ScaleArg == 2
\* paint edits per run
MaxPaints == 2

-----------------------------------------------------------------------------
(* CellClass, CellProperties, Cell *)

CellClass == {"Empty", "Sand", "Water", "Rock", "Smoke"}

\* the bitflags, as the set of flags that are set
NONE == {}
MOVEDOWN == {"MOVEDOWN"}
MOVEDOWNSIDE == {"MOVEDOWNSIDE"}
MOVESIDE == {"MOVESIDE"}
MOVEUP == {"MOVEUP"}
MOVEUPSIDE == {"MOVEUPSIDE"}

Cell_empty == [class |-> "Empty", properties |-> NONE]
Cell_sand == [class |-> "Sand", properties |-> MOVEDOWN \cup MOVEDOWNSIDE]
Cell_water == [class |-> "Water", properties |-> MOVEDOWN \cup MOVESIDE \cup MOVEDOWNSIDE]
Cell_rock == [class |-> "Rock", properties |-> NONE]
Cell_smoke == [class |-> "Smoke", properties |-> MOVEUP \cup MOVEUPSIDE]

-----------------------------------------------------------------------------
(* Grid access *)

get_index_by_pos(x, y) == y * width + x

get_cell_by_pos(x, y) == cells[y * width + x]

\* mutant: the flat index is tested instead of the two coordinates
in_bounds_wrap(x, y) == y < height /\ y * width + x < width * height

in_bounds(x, y) == x < width /\ y < height

is_empty(x, y) ==
    IF ~in_bounds(x, y) THEN FALSE
    ELSE get_cell_by_pos(x, y).class = "Empty"

\* HashMap::entry(index_to).or_insert(Vec::new()).push(index)
entry_push(ch, index_to, index) ==
    [k \in (DOMAIN ch) \cup {index_to} |->
        IF k = index_to
        THEN (IF k \in DOMAIN ch THEN Append(ch[k], index) ELSE <<index>>)
        ELSE ch[k]]

move_cell(ch, x, y, xto, yto) ==
    entry_push(ch, get_index_by_pos(xto, yto), get_index_by_pos(x, y))

-----------------------------------------------------------------------------
(* The movement rules: each returns whether it registered an intent and    *)
(* the pending-moves map afterwards. r is the value of rand::gen_range(0,2)*)
(* should the rule draw one.                                               *)

\* mutant: only the sand-into-water case is let through
move_down_water_only(ch, x, y) ==
    LET dest_y == y + 1 IN
    IF ~in_bounds(x, dest_y) THEN [ok |-> FALSE, changes |-> ch]
    ELSE LET dest_cell == get_cell_by_pos(x, dest_y)
             current_cell == get_cell_by_pos(x, y)
             can_move == current_cell.class = "Sand" /\ dest_cell.class = "Water"
         IN [ok |-> can_move,
             changes |-> IF can_move THEN move_cell(ch, x, y, x, dest_y) ELSE ch]

\* mutant: the destination's content is not looked at
move_down_any(ch, x, y) ==
    LET dest_y == y + 1 IN
    IF ~in_bounds(x, dest_y) THEN [ok |-> FALSE, changes |-> ch]
    ELSE [ok |-> TRUE, changes |-> move_cell(ch, x, y, x, dest_y)]

\* mutant: the intent is recorded before can_move is looked at
move_down_record_first(ch, x, y) ==
    LET dest_y == y + 1 IN
    IF ~in_bounds(x, dest_y) THEN [ok |-> FALSE, changes |-> ch]
    ELSE LET dest_cell == get_cell_by_pos(x, dest_y)
             current_cell == get_cell_by_pos(x, y)
             can_move == \/ dest_cell.class = "Empty"
                         \/ (current_cell.class = "Sand" /\ dest_cell.class = "Water")
         IN [ok |-> can_move, changes |-> move_cell(ch, x, y, x, dest_y)]

move_down(ch, x, y) ==
    LET dest_y == y + 1 IN
    IF ~in_bounds(x, dest_y) THEN [ok |-> FALSE, changes |-> ch]
    ELSE LET dest_cell == get_cell_by_pos(x, dest_y)
             current_cell == get_cell_by_pos(x, y)
             can_move == \/ dest_cell.class = "Empty"
                         \/ (current_cell.class = "Sand" /\ dest_cell.class = "Water")
         IN [ok |-> can_move,
             changes |-> IF can_move THEN move_cell(ch, x, y, x, dest_y) ELSE ch]

\* mutant: no draw, left is taken whenever it is free
tie_left_biased(l, rt, r) == l

\* the tie-break shared by the three side rules: both free -> draw
tie_left(l, rt, r) == IF l /\ rt THEN r = 0 ELSE l
tie_right(l, rt, r) == IF l /\ rt THEN ~(r = 0) ELSE rt

move_side(ch, x, y, r) ==
    LET l == x > 0 /\ is_empty(x - 1, y)
        rt == is_empty(x + 1, y)
        left == tie_left(l, rt, r)
        right == tie_right(l, rt, r)
    IN [ok |-> left \/ right,
        changes |-> IF left THEN move_cell(ch, x, y, x - 1, y)
                    ELSE IF right THEN move_cell(ch, x, y, x + 1, y)
                    ELSE ch]

move_down_side(ch, x, y, r) ==
    LET l == x > 0 /\ is_empty(x - 1, y + 1)
        rt == is_empty(x + 1, y + 1)
        down_left == tie_left(l, rt, r)
        down_right == tie_right(l, rt, r)
    IN [ok |-> down_left \/ down_right,
        changes |-> IF down_left THEN move_cell(ch, x, y, x - 1, y + 1)
                    ELSE IF down_right THEN move_cell(ch, x, y, x + 1, y + 1)
                    ELSE ch]

\* mutant: the row below is tested and targeted, as in move_down
move_up_below(ch, x, y) ==
    IF y = 0 THEN [ok |-> FALSE, changes |-> ch]
    ELSE LET up == is_empty(x, y + 1)
         IN [ok |-> up,
             changes |-> IF up THEN move_cell(ch, x, y, x, y + 1) ELSE ch]

move_up(ch, x, y) ==
    IF y = 0 THEN [ok |-> FALSE, changes |-> ch]
    ELSE LET up == is_empty(x, y - 1)
         IN [ok |-> up,
             changes |-> IF up THEN move_cell(ch, x, y, x, y - 1) ELSE ch]

move_up_side(ch, x, y, r) ==
    IF y = 0 THEN [ok |-> FALSE, changes |-> ch]
    ELSE LET l == x > 0 /\ is_empty(x - 1, y - 1)
             rt == is_empty(x + 1, y - 1)
             up_left == tie_left(l, rt, r)
             up_right == tie_right(l, rt, r)
         IN [ok |-> up_left \/ up_right,
             changes |-> IF up_left THEN move_cell(ch, x, y, x - 1, y - 1)
                         ELSE IF up_right THEN move_cell(ch, x, y, x + 1, y - 1)
                         ELSE ch]

\* mutant: `if` where the chain has `else if`: after a successful move_down
\* the down-side rule is tried as well
scan_cell_fallthrough(ch, x, y, r) ==
    LET properties == get_cell_by_pos(x, y).properties
        d == move_down(ch, x, y)
        after == IF (properties \cap MOVEDOWN) # NONE /\ d.ok THEN d.changes ELSE ch
        ds == move_down_side(after, x, y, r)
        s == move_side(after, x, y, r)
        u == move_up(after, x, y)
        us == move_up_side(after, x, y, r)
    IN IF (properties \cap MOVEDOWNSIDE) # NONE /\ ds.ok THEN ds.changes
       ELSE IF after # ch THEN after
       ELSE IF (properties \cap MOVESIDE) # NONE /\ s.ok THEN s.changes
       ELSE IF (properties \cap MOVEUP) # NONE /\ u.ok THEN u.changes
       ELSE IF (properties \cap MOVEUPSIDE) # NONE /\ us.ok THEN us.changes
       ELSE ch

\* mutant: the side rule is tried before the down-side rule
scan_cell_side_first(ch, x, y, r) ==
    LET properties == get_cell_by_pos(x, y).properties
        d == move_down(ch, x, y)
        ds == move_down_side(ch, x, y, r)
        s == move_side(ch, x, y, r)
        u == move_up(ch, x, y)
        us == move_up_side(ch, x, y, r)
    IN IF (properties \cap MOVEDOWN) # NONE /\ d.ok THEN d.changes
       ELSE IF (properties \cap MOVESIDE) # NONE /\ s.ok THEN s.changes
       ELSE IF (properties \cap MOVEDOWNSIDE) # NONE /\ ds.ok THEN ds.changes
       ELSE IF (properties \cap MOVEUP) # NONE /\ u.ok THEN u.changes
       ELSE IF (properties \cap MOVEUPSIDE) # NONE /\ us.ok THEN us.changes
       ELSE ch

\* the body of the scan loop for one cell: the first rule of the mask, in the
\* order of the if/else-if chain, that succeeds
scan_cell(ch, x, y, r) ==
    LET properties == get_cell_by_pos(x, y).properties
        d == move_down(ch, x, y)
        ds == move_down_side(ch, x, y, r)
        s == move_side(ch, x, y, r)
        u == move_up(ch, x, y)
        us == move_up_side(ch, x, y, r)
    IN IF (properties \cap MOVEDOWN) # NONE /\ d.ok THEN d.changes
       ELSE IF (properties \cap MOVEDOWNSIDE) # NONE /\ ds.ok THEN ds.changes
       ELSE IF (properties \cap MOVESIDE) # NONE /\ s.ok THEN s.changes
       ELSE IF (properties \cap MOVEUP) # NONE /\ u.ok THEN u.changes
       ELSE IF (properties \cap MOVEUPSIDE) # NONE /\ us.ok THEN us.changes
       ELSE ch

-----------------------------------------------------------------------------
(* commit_cells(), one destination of the map *)

\* mutant: the source is not cleared after a normal move
commit_one_keep(c, destination, possible_sources, i) ==
    LET source == possible_sources[i] IN
    IF c[source].class = "Sand" /\ c[destination].class = "Water"
    THEN [c EXCEPT ![source] = c[destination], ![destination] = c[source]]
    ELSE [c EXCEPT ![destination] = c[source]]

\* mutant: the first candidate is cleared, not the one that was drawn
commit_one_first(c, destination, possible_sources, i) ==
    LET source == possible_sources[i] IN
    IF c[source].class = "Sand" /\ c[destination].class = "Water"
    THEN [c EXCEPT ![source] = c[destination], ![destination] = c[source]]
    ELSE [[c EXCEPT ![destination] = c[source]]
             EXCEPT ![possible_sources[1]] = Cell_empty]

\* mutant: no swap, sand overwrites the water
commit_one_overwrite(c, destination, possible_sources, i) ==
    LET source == possible_sources[i] IN
    [[c EXCEPT ![destination] = c[source]] EXCEPT ![source] = Cell_empty]

\* the loop body for one (destination, possible_sources) entry; i is the
\* value of rand::gen_range(0, possible_sources.len()), counted from 1
commit_one(c, destination, possible_sources, i) ==
    LET source == possible_sources[i] IN
    IF c[source].class = "Sand" /\ c[destination].class = "Water"
    THEN [c EXCEPT ![source] = c[destination], ![destination] = c[source]]
    ELSE [[c EXCEPT ![destination] = c[source]] EXCEPT ![source] = Cell_empty]

-----------------------------------------------------------------------------
(* update(): the brush keys and the paint edit *)

Keys == {"Q", "W", "S", "E", "R"}

\* the sets of keys held down that the model tries
KeySets == {{}} \cup {{k} : k \in Keys} \cup {Keys}

brush_after(keys) ==
    IF "Q" \in keys THEN Cell_smoke
    ELSE IF "W" \in keys THEN Cell_water
    ELSE IF "S" \in keys THEN Cell_sand
    ELSE IF "E" \in keys THEN Cell_empty
    ELSE IF "R" \in keys THEN Cell_rock
    ELSE brush

\* (coords / self.scale as f32) as usize, for a pointer at a pixel >= 0
pixel_to_cell(p) == p \div scale

\* pointer positions the model tries: one pixel inside every column (row),
\* and one past the last
PixelsX == {c * scale + (scale - 1) : c \in 0 .. width}
PixelsY == {c * scale + (scale - 1) : c \in 0 .. height}

\* mutant: the old class is not compared, every paint counts as a change
set_sell_by_pos_always(c, x, y, cell) ==
    LET index == get_index_by_pos(x, y)
    IN [usefull |-> TRUE,
        cells |-> [c EXCEPT ![index] = cell]]

\* set_sell_by_pos: the cell array afterwards, and whether the class changed
set_sell_by_pos(c, x, y, cell) ==
    LET index == get_index_by_pos(x, y)
    IN [usefull |-> c[index].class # cell.class,
        cells |-> [c EXCEPT ![index] = cell]]

-----------------------------------------------------------------------------
(* The state machine *)

\* the (width, height) pairs handed to new()
Dims == (1 .. 3) \X (1 .. 3)

\* SandWorld::new(width, height, scale)
new(w, h, s) ==
    /\ width = w
    /\ height = h
    /\ scale = s
    /\ cells = [i \in 0 .. (w * h - 1) |->
                  IF i = 0 THEN [class |-> "Sand", properties |-> MOVEDOWN]
                  ELSE Cell_empty]
    /\ changes = << >>
    /\ brush = Cell_sand
    /\ water_cells = 0

Init ==
    /\ \E d \in Dims : new(d[1], d[2], ScaleArg)
    /\ pc = "update"
    /\ sx = 0
    /\ sy = 0
    /\ todo = {}
    /\ paints = 0
    /\ tickCells = cells
    /\ tickChanges = << >>
    /\ tickWinner = << >>
    /\ tickOrder = << >>
    /\ ticked = FALSE

\* update() up to the scan loop, the mouse button up
UpdateNoPaint(keys) ==
    /\ pc = "update"
    /\ brush' = brush_after(keys)
    /\ UNCHANGED <<cells, water_cells, paints>>

\* update() up to the scan loop, the mouse button down at pixel (px, py)
UpdatePaint(keys, px, py) ==
    /\ pc = "update"
    /\ paints < MaxPaints
    /\ brush' = brush_after(keys)
    /\ LET x == pixel_to_cell(px)
           y == pixel_to_cell(py)
           set == set_sell_by_pos(cells, x, y, brush')
       IN IF in_bounds(x, y)
          THEN /\ cells' = set.cells
               /\ water_cells' = water_cells +
                     (IF set.usefull /\ brush'.class = "Water" THEN 1 ELSE 0)
          ELSE UNCHANGED <<cells, water_cells>>
    /\ paints' = paints + 1

\* the scan loop is entered: for x in 0..width, for y in (0..height).rev()
EnterScan ==
    /\ pc' = "scan"
    /\ sx' = 0
    /\ sy' = height - 1
    /\ tickCells' = cells'
    /\ tickChanges' = << >>
    /\ tickWinner' = << >>
    /\ tickOrder' = << >>
    /\ UNCHANGED <<width, height, scale, changes, todo, ticked>>

Update ==
    \E keys \in KeySets :
        /\ \/ UpdateNoPaint(keys)
           \/ \E px \in PixelsX, py \in PixelsY : UpdatePaint(keys, px, py)
        /\ EnterScan

\* one iteration of the scan loop; after the last one update() returns and the
\* frame loop enters commit_cells()
ScanCell ==
    /\ pc = "scan"
    /\ \E r \in 0 .. 1 : changes' = scan_cell(changes, sx, sy, r)
    /\ IF sy > 0
       THEN /\ sy' = sy - 1
            /\ UNCHANGED <<sx, pc, todo, tickChanges>>
       ELSE IF sx + 1 < width
       THEN /\ sx' = sx + 1
            /\ sy' = height - 1
            /\ UNCHANGED <<pc, todo, tickChanges>>
       ELSE /\ pc' = "commit"
            /\ todo' = DOMAIN changes'
            /\ tickChanges' = changes'
            /\ UNCHANGED <<sx, sy>>
    /\ UNCHANGED <<width, height, scale, brush, cells, water_cells, paints,
                   tickCells, tickWinner, tickOrder, ticked>>

\* one iteration of the loop of commit_cells(): the map hands out some
\* destination not yet visited, and a source is drawn from its candidates
CommitStep ==
    /\ pc = "commit"
    /\ \E destination \in todo :
         \E i \in 1 .. Len(changes[destination]) :
            LET source == changes[destination][i] IN
            /\ cells' = commit_one(cells, destination, changes[destination], i)
            /\ todo' = todo \ {destination}
            /\ tickWinner' = [k \in (DOMAIN tickWinner) \cup {destination} |->
                                IF k = destination THEN source ELSE tickWinner[k]]
            /\ tickOrder' = Append(tickOrder, destination)
    /\ UNCHANGED <<width, height, scale, brush, changes, water_cells, pc, sx, sy,
                   paints, tickCells, tickChanges, ticked>>

\* mutant: commit_cells() returns without clearing the map
CommitNoClear ==
    /\ pc = "commit"
    /\ todo = {}
    /\ pc' = "update"
    /\ ticked' = TRUE
    /\ UNCHANGED <<width, height, scale, brush, cells, changes, water_cells, sx, sy,
                   todo, paints, tickCells, tickChanges, tickWinner, tickOrder>>

\* the loop of commit_cells() is over: self.changes.clear(), and the frame
\* loop goes round
CommitClear ==
    /\ pc = "commit"
    /\ todo = {}
    /\ changes' = << >>
    /\ pc' = "update"
    /\ ticked' = TRUE
    /\ UNCHANGED <<width, height, scale, brush, cells, water_cells, sx, sy, todo,
                   paints, tickCells, tickChanges, tickWinner, tickOrder>>

Next == Update \/ ScanCell \/ CommitStep \/ CommitClear

Spec == Init /\ [][Next]_vars

-----------------------------------------------------------------------------
(* Vocabulary of the properties *)

Indices == 0 .. (width * height - 1)
xOf(i) == i % width
yOf(i) == i \div width

Count(c, m) == Cardinality({i \in DOMAIN c : c[i].class = m})

\* every source index stored in a pending-moves map
Sources(ch) == UNION {{ch[d][i] : i \in 1 .. Len(ch[d])} : d \in DOMAIN ch}

\* commit_cells() has just returned: the history variables describe the tick
\* that ended
AfterTick == pc = "update" /\ ticked

-----------------------------------------------------------------------------
(* C1. Mass conservation: from the start of a tick's intent scan (after    *)
(* the paint edit) to the end of commit_cells(), and at every step in      *)
(* between, the number of cells of each non-Empty material is what it was  *)
(* when the scan started, whatever the tie-breaks, winners and order of    *)
(* destinations.                                                           *)
MassConservation ==
    \A m \in CellClass \ {"Empty"} : Count(cells, m) = Count(tickCells, m)

\* a tick has ended in which a destination had several candidates and
\* another destination was a sand-into-water move
MassConservationWitness ==
    /\ AfterTick
    /\ \E d \in DOMAIN tickChanges : Len(tickChanges[d]) >= 2
    /\ \E d \in DOMAIN tickChanges : tickCells[d].class = "Water"
    /\ cells # tickCells

(* C2. After commit_cells(), every destination that had at least one       *)
(* candidate holds the material one of its candidates held at the start of *)
(* the tick.                                                               *)
DestinationHoldsCandidate ==
    AfterTick =>
        \A d \in DOMAIN tickChanges :
            \E i \in 1 .. Len(tickChanges[d]) :
                cells[d].class = tickCells[tickChanges[d][i]].class

(* C3 as stated: after the tick every candidate that was not chosen still  *)
(* holds the material it held before the tick.                             *)
LosersUnchanged ==
    AfterTick =>
        \A d \in DOMAIN tickChanges :
            \A i \in 1 .. Len(tickChanges[d]) :
                LET s == tickChanges[d][i] IN
                s # tickWinner[d] => cells[s].class = tickCells[s].class

(* C3 amended: after the tick every candidate that was not chosen, and     *)
(* whose own position is not a destination of the pending-moves map (it is *)
(* not a Water cell with Sand directly above it), still holds the cell it  *)
(* held before the tick.                                                   *)
LosersNotTargetedUnchanged ==
    AfterTick =>
        \A d \in DOMAIN tickChanges :
            \A i \in 1 .. Len(tickChanges[d]) :
                LET s == tickChanges[d][i] IN
                (s # tickWinner[d] /\ s \notin DOMAIN tickChanges)
                    => cells[s] = tickCells[s]

\* a tick has ended in which a destination had a candidate that lost, that
\* was not itself a destination, and the winner moved in
LosersNotTargetedWitness ==
    /\ AfterTick
    /\ \E d \in DOMAIN tickChanges :
         \E i \in 1 .. Len(tickChanges[d]) :
            LET s == tickChanges[d][i] IN
            /\ s # tickWinner[d]
            /\ s \notin DOMAIN tickChanges
            /\ tickCells[s].class # "Empty"
            /\ cells[d].class # "Empty"

(* C4 as stated: Sand directly above Water at the start of a tick, the     *)
(* sand being the only candidate for the water's position: after the tick  *)
(* the upper position holds Water and the lower one Sand.                  *)
SwapWheneverSandAboveWater ==
    AfterTick =>
        \A s \in Indices :
            LET d == s + width IN
            (/\ d \in Indices
             /\ tickCells[s].class = "Sand"
             /\ tickCells[d].class = "Water"
             /\ (d \in DOMAIN tickChanges =>
                    \A i \in 1 .. Len(tickChanges[d]) : tickChanges[d][i] = s))
            => (cells[s].class = "Water" /\ cells[d].class = "Sand")

(* C4 amended: Sand directly above Water at the start of a tick, the sand  *)
(* being the only candidate for the water's position and the water cell    *)
(* itself registering no intent in that tick: after the tick the upper     *)
(* position holds Water and the lower one Sand (neither is Empty).         *)
SwapWhenWaterStays ==
    AfterTick =>
        \A s \in Indices :
            LET d == s + width IN
            (/\ d \in Indices
             /\ tickCells[s].class = "Sand"
             /\ tickCells[d].class = "Water"
             /\ (d \in DOMAIN tickChanges =>
                    \A i \in 1 .. Len(tickChanges[d]) : tickChanges[d][i] = s)
             /\ d \notin Sources(tickChanges))
            => (cells[s].class = "Water" /\ cells[d].class = "Sand")

\* a tick has ended that started with Sand above a Water cell that had no
\* intent, while some other cell did move
SwapWhenWaterStaysWitness ==
    /\ AfterTick
    /\ \E s \in Indices :
         LET d == s + width IN
         /\ d \in Indices
         /\ tickCells[s].class = "Sand"
         /\ tickCells[d].class = "Water"
         /\ d \notin Sources(tickChanges)
         /\ cells[s].class = "Water"
         /\ cells[d].class = "Sand"
    /\ Cardinality(DOMAIN tickChanges) >= 2

(* C5. Bounds safety: is_empty(x, y) is false for every (x, y) outside the *)
(* grid, and every destination and source index in the pending-moves map   *)
(* is an index of the grid, the destination being, in coordinates, a       *)
(* neighbour that a rule of the source's mask names: never a cell reached  *)
(* by wrapping to another row or column.                                   *)
RuleOffsets(properties) ==
    (IF (properties \cap MOVEDOWN) # NONE THEN {<<0, 1>>} ELSE {})
    \cup (IF (properties \cap MOVEDOWNSIDE) # NONE THEN {<<-1, 1>>, <<1, 1>>} ELSE {})
    \cup (IF (properties \cap MOVESIDE) # NONE THEN {<<-1, 0>>, <<1, 0>>} ELSE {})
    \cup (IF (properties \cap MOVEUP) # NONE THEN {<<0, -1>>} ELSE {})
    \cup (IF (properties \cap MOVEUPSIDE) # NONE THEN {<<-1, -1>>, <<1, -1>>} ELSE {})

BoundsSafety ==
    /\ \A x \in 0 .. (width + 1), y \in 0 .. (height + 1) :
          ~(x \in 0 .. (width - 1) /\ y \in 0 .. (height - 1)) => ~is_empty(x, y)
    /\ \A d \in DOMAIN changes :
          /\ d \in Indices
          /\ \A i \in 1 .. Len(changes[d]) :
                LET s == changes[d][i] IN
                /\ s \in Indices
                /\ <<xOf(d) - xOf(s), yOf(d) - yOf(s)>>
                       \in RuleOffsets(tickCells[s].properties)

\* the scan has registered intents of cells on the left and right edges, one
\* of them a side move along the bottom row
BoundsSafetyWitness ==
    /\ pc = "commit"
    /\ width >= 2
    /\ \E d \in DOMAIN changes :
         \E i \in 1 .. Len(changes[d]) :
            LET s == changes[d][i] IN
            xOf(s) = width - 1 /\ yOf(s) = height - 1 /\ d = s - 1
    /\ \E d \in DOMAIN changes :
         \E i \in 1 .. Len(changes[d]) : xOf(changes[d][i]) = 0

(* C6. new(width, height) produces a grid in which every cell is Empty,    *)
(* and an empty pending-moves map.                                         *)
NewAllEmpty ==
    Init => (/\ \A i \in Indices : cells[i] = Cell_empty
             /\ changes = << >>)

\* c holds material m at index i and Empty everywhere else
Only(c, i, m) ==
    \A j \in DOMAIN c : c[j].class = (IF j = i THEN m ELSE "Empty")

(* C7 as stated: 3x1 grid, Sand at (1,0), (0,0) and (2,0) Empty: one tick  *)
(* moves the sand to (0,0) or to (2,0).                                    *)
SandTieBreak3x1 ==
    (AfterTick /\ width = 3 /\ height = 1 /\ Only(tickCells, 1, "Sand"))
        => (Only(cells, 0, "Sand") \/ Only(cells, 2, "Sand"))

(* C7 amended: 3x1 grid, Water at (1,0), (0,0) and (2,0) Empty: one tick   *)
(* moves the water to (0,0) or to (2,0), and when the scan reaches (1,0)   *)
(* both the intent towards (0,0) and the one towards (2,0) are possible    *)
(* steps. Sand at (1,0) of that grid does not move: it has no SIDE rule.   *)
WaterTieBreak3x1 ==
    /\ (AfterTick /\ width = 3 /\ height = 1 /\ Only(tickCells, 1, "Water"))
          => (Only(cells, 0, "Water") \/ Only(cells, 2, "Water"))
    /\ (pc = "scan" /\ width = 3 /\ height = 1 /\ sx = 1 /\ Only(cells, 1, "Water"))
          => /\ ENABLED (ScanCell /\ changes' = (0 :> <<1>>))
             /\ ENABLED (ScanCell /\ changes' = (2 :> <<1>>))
    /\ (AfterTick /\ width = 3 /\ height = 1 /\ Only(tickCells, 1, "Sand"))
          => cells = tickCells

\* the tick of the 3x1 grid with Water at (1,0) has ended with it at (2,0)
WaterTieBreak3x1Witness ==
    /\ AfterTick
    /\ width = 3
    /\ height = 1
    /\ Only(tickCells, 1, "Water")
    /\ Only(cells, 2, "Water")
    /\ tickWinner = (2 :> 1)

(* C8. Free fall: a Sand cell whose cell below is in bounds and Empty at   *)
(* the start of the tick, and which is the only candidate for it, is in    *)
(* the cell below after the tick and its old position is Empty; on a 3x3   *)
(* grid holding only Sand at (1,0), the grid after the tick holds only     *)
(* Sand at (1,1).                                                          *)
FreeFall ==
    AfterTick =>
        /\ \A s \in Indices :
              LET d == s + width IN
              (/\ d \in Indices
               /\ tickCells[s].class = "Sand"
               /\ tickCells[d].class = "Empty"
               /\ (d \in DOMAIN tickChanges =>
                      \A i \in 1 .. Len(tickChanges[d]) : tickChanges[d][i] = s))
              => (cells[d] = tickCells[s] /\ cells[s] = Cell_empty)
        /\ (width = 3 /\ height = 3 /\ Only(tickCells, 1, "Sand"))
              => Only(cells, 4, "Sand")

\* the tick of the 3x3 grid holding only Sand at (1,0) has ended
FreeFallWitness ==
    /\ AfterTick
    /\ width = 3
    /\ height = 3
    /\ Only(tickCells, 1, "Sand")
    /\ cells[4].class = "Sand"
    /\ cells[1].class = "Empty"

(* C9. Smoke rises: a Smoke cell below row 0 whose cell above is Empty at  *)
(* the start of the tick, and which is the only candidate for it, is in    *)
(* the cell above after the tick and its old position is Empty; a Smoke    *)
(* cell in row 0 registers no intent and stays; on a 3x3 grid holding only *)
(* Smoke at (1,2), the grid after the tick holds only Smoke at (1,1).      *)
SmokeRises ==
    AfterTick =>
        /\ \A s \in Indices :
              LET d == s - width IN
              (/\ d \in Indices
               /\ tickCells[s].class = "Smoke"
               /\ tickCells[d].class = "Empty"
               /\ (d \in DOMAIN tickChanges =>
                      \A i \in 1 .. Len(tickChanges[d]) : tickChanges[d][i] = s))
              => (cells[d] = tickCells[s] /\ cells[s] = Cell_empty)
        /\ \A s \in Indices :
              (yOf(s) = 0 /\ tickCells[s].class = "Smoke")
              => (s \notin Sources(tickChanges) /\ cells[s] = tickCells[s])
        /\ (width = 3 /\ height = 3 /\ Only(tickCells, 7, "Smoke"))
              => Only(cells, 4, "Smoke")

\* the tick of the 3x3 grid holding only Smoke at (1,2) has ended
SmokeRisesWitness ==
    /\ AfterTick
    /\ width = 3
    /\ height = 3
    /\ Only(tickCells, 7, "Smoke")
    /\ cells[4].class = "Smoke"
    /\ cells[7].class = "Empty"

(* C10. Blocked pile: when at the start of the tick every rule in the mask *)
(* of every cell fails (each destination it names is out of the grid or    *)
(* occupied, Water under Sand not counting as occupied for DOWN), the tick *)
(* registers no intent and leaves every cell unchanged; so for the 1x2     *)
(* grid with Sand at (0,0) and Rock at (0,1).                              *)
FreeAt(c, x, y) ==
    /\ x \in 0 .. (width - 1)
    /\ y \in 0 .. (height - 1)
    /\ c[y * width + x].class = "Empty"

CanMove(c, s) ==
    LET x == xOf(s)
        y == yOf(s)
        p == c[s].properties
    IN \/ /\ (p \cap MOVEDOWN) # NONE
          /\ \/ FreeAt(c, x, y + 1)
             \/ /\ y + 1 < height
                /\ c[s].class = "Sand"
                /\ c[s + width].class = "Water"
       \/ \E o \in RuleOffsets(p) \ {<<0, 1>>} : FreeAt(c, x + o[1], y + o[2])

BlockedPile ==
    AfterTick =>
        /\ (\A s \in Indices : ~CanMove(tickCells, s))
              => (tickChanges = << >> /\ tickOrder = << >> /\ cells = tickCells)
        /\ (/\ width = 1
            /\ height = 2
            /\ tickCells[0].class = "Sand"
            /\ tickCells[1].class = "Rock")
              => (tickChanges = << >> /\ cells = tickCells)

\* the tick of the 1x2 grid with Sand on Rock has ended
BlockedPileWitness ==
    /\ AfterTick
    /\ width = 1
    /\ height = 2
    /\ tickCells[0] = Cell_sand
    /\ tickCells[1] = Cell_rock
    /\ cells = tickCells

\* the movement mask that the constructor of each material gives it
Canonical(m) ==
    CASE m = "Empty" -> NONE
      [] m = "Rock" -> NONE
      [] m = "Sand" -> MOVEDOWN \cup MOVEDOWNSIDE
      [] m = "Water" -> MOVEDOWN \cup MOVESIDE \cup MOVEDOWNSIDE
      [] m = "Smoke" -> MOVEUP \cup MOVEUPSIDE

(* C11. Paint: an update() with the mouse button down over the in-bounds   *)
(* cell (x, y) sets exactly that cell to the current brush material with   *)
(* that material's canonical mask and leaves every other cell unchanged;   *)
(* set_sell_by_pos reports true iff the cell's material differed from the  *)
(* brush material before the paint (seen in water_cells, which grows by    *)
(* one iff it reports true and the brush is Water); with the mouse over an *)
(* out-of-bounds (x, y) no cell changes.                                   *)
PaintEffect(keys, px, py) ==
    LET x == px \div scale
        y == py \div scale
        b == brush'
        inside == x \in 0 .. (width - 1) /\ y \in 0 .. (height - 1)
        differed == cells[y * width + x].class # b.class
    IN IF inside
       THEN /\ cells' = [i \in Indices |->
                           IF i = y * width + x
                           THEN [class |-> b.class, properties |-> Canonical(b.class)]
                           ELSE cells[i]]
            /\ set_sell_by_pos(cells, x, y, b).usefull = differed
            /\ water_cells' = water_cells +
                  (IF differed /\ b.class = "Water" THEN 1 ELSE 0)
       ELSE cells' = cells /\ water_cells' = water_cells

PaintContract ==
    [][pc = "update" =>
          \A keys \in KeySets, px \in PixelsX, py \in PixelsY :
             (UpdatePaint(keys, px, py) /\ EnterScan) => PaintEffect(keys, px, py)]_vars

\* the scan is about to start after two paint edits, the second of which put
\* Water over a cell that did not hold Water
PaintContractWitness ==
    /\ pc = "scan"
    /\ sx = 0
    /\ sy = height - 1
    /\ paints = 2
    /\ water_cells = 1
    /\ brush = Cell_water
    /\ \E i \in Indices : cells[i] = Cell_water
    /\ \E i \in Indices : cells[i] = Cell_rock

(* C12. The water counter that density() returns equals the number of      *)
(* Water cells of the grid, after any sequence of paints and ticks.        *)
DensityCountsWater ==
    water_cells = Count(cells, "Water")

(* C13. In every reachable state every cell's movement mask is the         *)
(* canonical mask of its material.                                         *)
MasksCanonical ==
    \A i \in Indices : cells[i].properties = Canonical(cells[i].class)

(* C14. While the scan runs and until the map is cleared, each source      *)
(* index appears at most once across all candidate lists of the            *)
(* pending-moves map, and only cells holding Sand, Water or Smoke at the   *)
(* start of the tick appear as sources.                                    *)
SourcesAtMostOnce ==
    /\ \A d1 \in DOMAIN changes, d2 \in DOMAIN changes :
          \A i \in 1 .. Len(changes[d1]), j \in 1 .. Len(changes[d2]) :
             changes[d1][i] = changes[d2][j] => (d1 = d2 /\ i = j)
    /\ \A s \in Sources(changes) :
          tickCells[s].class \in {"Sand", "Water", "Smoke"}

\* the scan has ended with a destination that has two candidates and with a
\* second destination
SourcesAtMostOnceWitness ==
    /\ pc = "commit"
    /\ tickOrder = << >>
    /\ \E d \in DOMAIN changes : Len(changes[d]) >= 2
    /\ Cardinality(DOMAIN changes) >= 2

(* C15. Priority order: when the scan has ended, the intent of every cell  *)
(* is a destination of the first rule, in the order DOWN, DOWN_SIDE, SIDE, *)
(* UP, UP_SIDE restricted to its mask, that has a destination available at *)
(* the start of the tick, and that is its only intent; a cell with no such *)
(* rule has no intent. So Water with its down cell blocked, a free         *)
(* down-diagonal and a free side cell proposes a down-diagonal, and Sand   *)
(* with a free down cell proposes the down cell.                           *)
RuleOrder == <<MOVEDOWN, MOVEDOWNSIDE, MOVESIDE, MOVEUP, MOVEUPSIDE>>

\* the destinations rule f (a one-flag mask) would accept for the cell at s
RuleDests(c, s, f) ==
    LET x == xOf(s)
        y == yOf(s)
    IN IF f = MOVEDOWN
       THEN {d \in {s + width} :
                /\ d \in Indices
                /\ \/ c[d].class = "Empty"
                   \/ (c[s].class = "Sand" /\ c[d].class = "Water")}
       ELSE {(y + o[2]) * width + (x + o[1]) :
                o \in {q \in RuleOffsets(f) : FreeAt(c, x + q[1], y + q[2])}}

IntentsOf(ch, s) ==
    {d \in DOMAIN ch : \E i \in 1 .. Len(ch[d]) : ch[d][i] = s}

PriorityOrder ==
    pc = "commit" =>
        \A s \in Indices :
            LET usable == {k \in 1 .. 5 :
                              /\ (tickCells[s].properties \cap RuleOrder[k]) # NONE
                              /\ RuleDests(tickCells, s, RuleOrder[k]) # {}}
            IN IF usable = {}
               THEN IntentsOf(tickChanges, s) = {}
               ELSE LET first == CHOOSE k \in usable : \A j \in usable : k <= j
                    IN /\ Cardinality(IntentsOf(tickChanges, s)) = 1
                       /\ IntentsOf(tickChanges, s)
                             \subseteq RuleDests(tickCells, s, RuleOrder[first])

\* the scan has ended for a grid with a Water cell whose down cell is blocked
\* and which has a free down-diagonal and a free side cell
PriorityOrderWitness ==
    /\ pc = "commit"
    /\ \E s \in Indices :
          /\ tickCells[s].class = "Water"
          /\ RuleDests(tickCells, s, MOVEDOWN) = {}
          /\ RuleDests(tickCells, s, MOVEDOWNSIDE) # {}
          /\ RuleDests(tickCells, s, MOVESIDE) # {}
          /\ IntentsOf(tickChanges, s) \subseteq RuleDests(tickCells, s, MOVEDOWNSIDE)
          /\ IntentsOf(tickChanges, s) # {}

-----------------------------------------------------------------------------
(* commit_cells() run again over the tick's map with the tick's winners *)

\* the position in its candidate list of the source drawn for destination d
WinnerIndex(d) ==
    CHOOSE i \in 1 .. Len(tickChanges[d]) : tickChanges[d][i] = tickWinner[d]

\* the loop of commit_cells() over the destinations in the given order
RECURSIVE CommitInOrder(_, _)
CommitInOrder(c, order) ==
    IF order = << >> THEN c
    ELSE CommitInOrder(commit_one(c, Head(order), tickChanges[Head(order)],
                                  WinnerIndex(Head(order))),
                       Tail(order))

\* every cell labelled with the index it occupies
Tagged(c) ==
    [i \in DOMAIN c |->
        [class |-> c[i].class, properties |-> c[i].properties, from |-> i]]

\* the grid after the tick, each particle labelled with where it started
Tracked == CommitInOrder(Tagged(tickCells), tickOrder)

Abs(n) == IF n < 0 THEN 0 - n ELSE n

\* the orders in which a HashMap may hand out the keys in D
Orders(D) ==
    {p \in [1 .. Cardinality(D) -> D] :
        \A a \in DOMAIN p, b \in DOMAIN p : p[a] = p[b] => a = b}

(* C16. No multi-cell-per-tick movement: after a tick every particle is at *)
(* its starting position or at most one cell away from it in x and in y,   *)
(* and no particle was moved twice (no visited destination is later the    *)
(* winning source of another destination).                                 *)
OneCellPerTick ==
    AfterTick =>
        /\ \A i \in Indices :
              cells[i].class # "Empty" =>
                 /\ Abs(xOf(i) - xOf(Tracked[i].from)) <= 1
                 /\ Abs(yOf(i) - yOf(Tracked[i].from)) <= 1
        /\ \A j \in DOMAIN tickOrder, k \in DOMAIN tickOrder :
              j < k => tickWinner[tickOrder[k]] # tickOrder[j]

(* C20. Order independence of commit: for the grid, the pending-moves map  *)
(* and the winners of a tick, commit_cells() produces the same grid in     *)
(* whatever order the destinations are visited.                            *)
CommitOrderIndependent ==
    AfterTick =>
        \A p \in Orders(DOMAIN tickChanges) : CommitInOrder(tickCells, p) = cells

(* C17. The movement rules only propose: every step of the intent scan     *)
(* leaves the cell array unchanged, and at every cell the scan reaches a   *)
(* rule that returns false returns the pending-moves map as it was; the    *)
(* cell array changes only in the paint edit and in commit_cells().        *)
FailedRulesAddNothing ==
    \A r \in 0 .. 1 :
        /\ ~move_down(changes, sx, sy).ok
              => move_down(changes, sx, sy).changes = changes
        /\ ~move_down_side(changes, sx, sy, r).ok
              => move_down_side(changes, sx, sy, r).changes = changes
        /\ ~move_side(changes, sx, sy, r).ok
              => move_side(changes, sx, sy, r).changes = changes
        /\ ~move_up(changes, sx, sy).ok
              => move_up(changes, sx, sy).changes = changes
        /\ ~move_up_side(changes, sx, sy, r).ok
              => move_up_side(changes, sx, sy, r).changes = changes

RulesOnlyPropose ==
    [][/\ pc = "scan" => (cells' = cells /\ FailedRulesAddNothing)
       /\ cells' # cells => (pc = "update" \/ pc = "commit")]_vars

\* the scan, with intents already recorded, is at a Sand or Water cell whose
\* move_down fails
RulesOnlyProposeWitness ==
    /\ pc = "scan"
    /\ changes # << >>
    /\ cells = tickCells
    /\ get_cell_by_pos(sx, sy).class \in {"Sand", "Water"}
    /\ ~move_down(changes, sx, sy).ok

(* C18. Phase ordering: the pending-moves map is empty whenever update()   *)
(* is about to run, when the scan starts and after commit_cells();         *)
(* commit_cells() is entered only from the scan's last cell, the scan      *)
(* having visited the cells one by one (so that every cell with an         *)
(* available rule has its intent in the map); and every intent that        *)
(* commit_cells() applies was recorded in this tick from this tick's grid. *)
PhaseState ==
    /\ pc = "update" => changes = << >>
    /\ (pc = "scan" /\ sx = 0 /\ sy = height - 1) => changes = << >>
    /\ pc = "commit" =>
          /\ changes = tickChanges
          /\ \A s \in Indices :
                CanMove(tickCells, s) <=> s \in Sources(changes)
    /\ \A d \in DOMAIN tickWinner :
          /\ d \in DOMAIN tickChanges
          /\ \E i \in 1 .. Len(tickChanges[d]) : tickChanges[d][i] = tickWinner[d]

PhaseStep ==
    /\ (pc' = "commit" /\ pc # "commit")
          => (pc = "scan" /\ sx = width - 1 /\ sy = 0)
    /\ (pc = "scan" /\ pc' = "scan")
          => sx' * height + (height - 1 - sy') = sx * height + (height - 1 - sy) + 1
    /\ pc' = "scan" /\ pc # "scan" => (pc = "update" /\ sx' = 0 /\ sy' = height - 1)
    /\ (pc = "commit" /\ cells' # cells) =>
          \E d \in DOMAIN tickChanges :
             \E i \in 1 .. Len(tickChanges[d]) :
                cells' = commit_one(cells, d, tickChanges[d], i)

PhaseOrdering == [](PhaseState) /\ [][PhaseStep]_vars

\* a tick that recorded and applied intents has ended and the map is empty
PhaseOrderingWitness ==
    /\ AfterTick
    /\ changes = << >>
    /\ Cardinality(DOMAIN tickChanges) >= 2
    /\ Len(tickOrder) = Cardinality(DOMAIN tickChanges)
    /\ cells # tickCells

(* C19. Rock is static: a position holding Rock when the scan of a tick    *)
(* starts holds the same Rock cell at every later step of the tick, is     *)
(* never a source and never a destination in the pending-moves map, and    *)
(* no other position comes to hold Rock during the tick.                   *)
RockStatic ==
    /\ \A i \in Indices :
          tickCells[i].class = "Rock" =>
             /\ cells[i] = tickCells[i]
             /\ i \notin DOMAIN changes
             /\ i \notin Sources(changes)
    /\ {i \in Indices : cells[i].class = "Rock"}
          = {i \in Indices : tickCells[i].class = "Rock"}

\* a tick has ended in which a Sand or Water cell directly above a Rock cell
\* moved away
RockStaticWitness ==
    /\ AfterTick
    /\ \E i \in Indices :
          /\ tickCells[i].class = "Rock"
          /\ cells[i].class = "Rock"
          /\ (i - width) \in Indices
          /\ tickCells[i - width].class \in {"Sand", "Water"}
          /\ cells[i - width].class = "Empty"

====
